---- MODULE Spec2Model ----
\* Model of the pet-record core (src/tasks/pets_core.py): the Species
\* enumeration, the validated Pet record and the PetContainer operations;
\* of the interactive menu (src/tasks/pets_interactive.py) and of the two
\* command-line interfaces (src/tasks/pets_cli.py) that call the core.
\*
\* Python strings are modelled as sequences of Unicode code points, so that
\* str.upper, str.replace, str.strip and the ordinal comparison used by
\* list.sort are computed, not assumed.  Only ASCII letters are case-mapped.
EXTENDS Integers, Sequences, FiniteSets, TLC

VARIABLES
    pets,    \* PetContainer.pets: the ordered list of Pet records
    files,   \* the file system: path -> content of the file
    op,      \* name of the operation that ran last ("init" after construction)
    args,    \* the arguments of that call
    pre,     \* PetContainer.pets as it was when that call started
    filepre, \* the file system as it was when that call started
    ret,     \* the Pet records the call returned (add_pet: one, find_by_species: a list)
    text,    \* the string show_all returned, <<>> after any other call
    stats,   \* the dict get_statistics returned, NoStats after any other call
    err,     \* the exception the call raised, "none" when it returned
    inputs,  \* what input() will return or raise on its next calls, in order
    pc,      \* InteractivePetCLI.run: "idle" (not started), "start", "menu", "done"
    out,     \* the messages the last front-end step printed, in order
    menus,   \* how often run has printed the menu, counted modulo MenuModulus
    code     \* the exit status of the last command-line call

\* The variables of the front ends; the operations of the core leave them alone.
frontend == <<inputs, pc, out, menus, code>>

vars == <<pets, files, op, args, pre, filepre, ret, text, stats, err,
          inputs, pc, out, menus, code>>

-----------------------------------------------------------------------------
\* Bounds of the model.

\* Longest list the store grows to by add_pet in Spec.
MaxPets == 3
\* Longest list the store grows to by add_pet in SpecInputs.
MaxInputPets == 1
\* Longest list the store grows to by add_pet in SpecFile.
MaxFilePets == 2
\* Longest list the store grows to by add_pet in SpecStats.
MaxStatPets == 4
\* Most commands the user's script is made of in SpecMenu.
MaxCommands == 2
\* Longest list the store grows to by add_pet_interactive in SpecPrompt.
MaxPromptPets == 2
\* Most entries of a file the add command still adds to in SpecCli.
MaxCliPets == 3
\* The menus printed are counted modulo this number: the count itself has
\* no bound when the loop of run does not end.
MenuModulus == 2

-----------------------------------------------------------------------------
\* Strings.

\* str.isspace for one character: the characters str.strip() removes.
isspace(c) == c \in {9, 10, 11, 12, 13, 28, 29, 30, 31, 32, 133, 160}

\* str.strip(): drops leading and trailing whitespace.
RECURSIVE lstrip(_)
lstrip(s) == IF s # <<>> /\ isspace(Head(s)) THEN lstrip(Tail(s)) ELSE s

RECURSIVE rstrip(_)
rstrip(s) ==
    IF s # <<>> /\ isspace(s[Len(s)]) THEN rstrip(SubSeq(s, 1, Len(s) - 1)) ELSE s

strip(s) == rstrip(lstrip(s))

\* str.upper() on ASCII text: a..z become A..Z, everything else is kept.
upper(s) == [i \in 1..Len(s) |-> IF s[i] \in 97..122 THEN s[i] - 32 ELSE s[i]]

\* str.replace(" ", "_"): every space (32) becomes an underscore (95).
replace_space(s) == [i \in 1..Len(s) |-> IF s[i] = 32 THEN 95 ELSE s[i]]

\* Python's ordering of two strings: lexicographic by code point.
RECURSIVE str_lt(_, _)
str_lt(a, b) ==
    IF b = <<>> THEN FALSE
    ELSE IF a = <<>> THEN TRUE
    ELSE IF Head(a) # Head(b) THEN Head(a) < Head(b)
    ELSE str_lt(Tail(a), Tail(b))

Reverse(s) == [i \in 1..Len(s) |-> s[Len(s) + 1 - i]]

\* str.lower() on ASCII text: A..Z become a..z, everything else is kept.
lower(s) == [i \in 1..Len(s) |-> IF s[i] \in 65..90 THEN s[i] + 32 ELSE s[i]]

\* str.split(sep) for a one-character separator: the pieces between the
\* occurrences of sep, empty pieces included.
RECURSIVE split(_, _)
split(s, sep) ==
    IF \A i \in 1..Len(s) : s[i] # sep THEN <<s>>
    ELSE LET k == CHOOSE i \in 1..Len(s) :
                      s[i] = sep /\ \A j \in 1..(i - 1) : s[j] # sep
         IN  <<SubSeq(s, 1, k - 1)>> \o split(SubSeq(s, k + 1, Len(s)), sep)

-----------------------------------------------------------------------------
\* class Species(Enum)

Species == {"CAT", "DOG", "BIRD", "FISH", "RODENT", "OTHER"}

\* The member names as Python strings.
SpeciesName(t) ==
    CASE t = "CAT"    -> <<67, 65, 84>>
      [] t = "DOG"    -> <<68, 79, 71>>
      [] t = "BIRD"   -> <<66, 73, 82, 68>>
      [] t = "FISH"   -> <<70, 73, 83, 72>>
      [] t = "RODENT" -> <<82, 79, 68, 69, 78, 84>>
      [] t = "OTHER"  -> <<79, 84, 72, 69, 82>>

\* The member values: the display labels "кот", "собака", "птица", "рыба",
\* "грызун", "другое"; str(member) returns them.
SpeciesValue(t) ==
    CASE t = "CAT"    -> <<1082, 1086, 1090>>
      [] t = "DOG"    -> <<1089, 1086, 1073, 1072, 1082, 1072>>
      [] t = "BIRD"   -> <<1087, 1090, 1080, 1094, 1072>>
      [] t = "FISH"   -> <<1088, 1099, 1073, 1072>>
      [] t = "RODENT" -> <<1075, 1088, 1099, 1079, 1091, 1085>>
      [] t = "OTHER"  -> <<1076, 1088, 1091, 1075, 1086, 1077>>

\* Species[key]: the member of that exact name; found = FALSE is KeyError.
Species_getitem(key) ==
    IF \E t \in Species : SpeciesName(t) = key
    THEN [found |-> TRUE, member |-> CHOOSE t \in Species : SpeciesName(t) = key]
    ELSE [found |-> FALSE, member |-> "OTHER"]

\* The names the body of class Species defines: the six members and __str__.
\* Enum adds no from_string.
Species_dict == Species \cup {"__str__"}

\* getattr(Species, attr): whether the class has the attribute.
Species_getattr(attr) == [found |-> attr \in Species_dict]

-----------------------------------------------------------------------------
\* class Pet

\* Faulty variant: the upper age limit is not checked.
Pet_noUpper(name, species, age) ==
    LET p == [name |-> name, species |-> species, age |-> age] IN
    IF strip(name) = <<>> THEN [raised |-> "ValueError", pet |-> p]
    ELSE IF age < 0 THEN [raised |-> "ValueError", pet |-> p]
    ELSE [raised |-> "none", pet |-> p]

\* Faulty variant: only the empty name is rejected, not the all-whitespace one.
Pet_noNameCheck(name, species, age) ==
    LET p == [name |-> name, species |-> species, age |-> age] IN
    IF name = <<>> THEN [raised |-> "ValueError", pet |-> p]
    ELSE IF age < 0 THEN [raised |-> "ValueError", pet |-> p]
    ELSE IF age > 100 THEN [raised |-> "ValueError", pet |-> p]
    ELSE [raised |-> "none", pet |-> p]

\* Faulty variant: the name is stored trimmed.
Pet_strips(name, species, age) ==
    LET p == [name |-> strip(name), species |-> species, age |-> age] IN
    IF strip(name) = <<>> THEN [raised |-> "ValueError", pet |-> p]
    ELSE IF age < 0 THEN [raised |-> "ValueError", pet |-> p]
    ELSE IF age > 100 THEN [raised |-> "ValueError", pet |-> p]
    ELSE [raised |-> "none", pet |-> p]

\* Pet(name, species, age) with __post_init__: the record, or the ValueError.
Pet(name, species, age) ==
    LET p == [name |-> name, species |-> species, age |-> age] IN
    IF strip(name) = <<>> THEN [raised |-> "ValueError", pet |-> p]
    ELSE IF age < 0 THEN [raised |-> "ValueError", pet |-> p]
    ELSE IF age > 100 THEN [raised |-> "ValueError", pet |-> p]
    ELSE [raised |-> "none", pet |-> p]

-----------------------------------------------------------------------------
\* list.sort(key=..., reverse=...)

\* Faulty variant: the name key is ignored and the age compared instead.
key_lt_age_only(key, a, b) == a.age < b.age

\* The order of the sort keys: pet.name (a string) or pet.age (a number).
key_lt(key, a, b) ==
    IF key = "name" THEN str_lt(a.name, b.name) ELSE a.age < b.age

\* One element put into an ascending list, after the elements it is not
\* smaller than: equal keys keep the order in which they arrive.
insort(sorted, x, key) ==
    LET after == {i \in 1..Len(sorted) : key_lt(key, x, sorted[i])}
        k     == IF after = {} THEN Len(sorted) + 1
                 ELSE CHOOSE i \in after : \A j \in after : i <= j
    IN  SubSeq(sorted, 1, k - 1) \o <<x>> \o SubSeq(sorted, k, Len(sorted))

RECURSIVE stable_sort(_, _)
stable_sort(s, key) ==
    IF s = <<>> THEN <<>>
    ELSE insort(stable_sort(SubSeq(s, 1, Len(s) - 1), key), s[Len(s)], key)

\* Faulty variant: reverse=True reverses the ascending result.
list_sort_reverse_after(s, key, reverse) ==
    IF reverse THEN Reverse(stable_sort(s, key)) ELSE stable_sort(s, key)

\* list.sort: a stable ascending sort; with reverse=True the list is reversed,
\* sorted and reversed again, which keeps equal keys in their original order.
list_sort(s, key, reverse) ==
    IF reverse THEN Reverse(stable_sort(Reverse(s), key)) ELSE stable_sort(s, key)

-----------------------------------------------------------------------------
\* The file system.

Paths == {"pets.json"}

\* A file is absent, holds text that is not JSON, holds a JSON number, or
\* holds a JSON array of objects.
NoFile  == [kind |-> "absent", items |-> <<>>]
Garbage == [kind |-> "garbage", items |-> <<>>]
JsonNumber == [kind |-> "number", items |-> <<>>]
JsonArray(items) == [kind |-> "array", items |-> items]

AllKeys == {"name", "species", "age"}

\* Faulty variant: the species is written as its display label.
pet_dict_label(pet) ==
    [keys |-> AllKeys, name |-> pet.name,
     species |-> SpeciesValue(pet.species), age |-> pet.age]

\* asdict(pet) with species replaced by the member name: one JSON object.
pet_dict(pet) ==
    [keys |-> AllKeys, name |-> pet.name,
     species |-> SpeciesName(pet.species), age |-> pet.age]

\* Faulty variant: the entries are added to the array the file holds.
save_content_append(old, list) ==
    JsonArray((IF old.kind = "array" THEN old.items ELSE <<>>)
              \o [i \in 1..Len(list) |-> pet_dict(list[i])])

\* What save_to_file leaves in a file that held old: open(filename, 'w')
\* truncates, json.dump writes the array of the pets' dicts.
save_content(old, list) == JsonArray([i \in 1..Len(list) |-> pet_dict(list[i])])

\* Faulty variant: the species of the file is upper-cased before the lookup.
RECURSIVE load_items_caseless(_, _)
load_items_caseless(items, acc) ==
    IF items = <<>> THEN [raised |-> "none", pets |-> acc]
    ELSE
        LET pet_data     == Head(items)
            species_name == IF "species" \in pet_data.keys THEN pet_data.species
                            ELSE SpeciesName("OTHER")
            species      == Species_getitem(upper(species_name)).member
        IN  IF "name" \notin pet_data.keys THEN [raised |-> "KeyError", pets |-> acc]
            ELSE IF "age" \notin pet_data.keys THEN [raised |-> "KeyError", pets |-> acc]
            ELSE LET r == Pet(pet_data.name, species, pet_data.age) IN
                 IF r.raised # "none" THEN [raised |-> r.raised, pets |-> acc]
                 ELSE load_items_caseless(Tail(items), Append(acc, r.pet))

\* The loop of load_from_file over the parsed array: the list built so far
\* and the exception that ended it ("none" when every entry was accepted).
RECURSIVE load_items(_, _)
load_items(items, acc) ==
    IF items = <<>> THEN [raised |-> "none", pets |-> acc]
    ELSE
        LET pet_data     == Head(items)
            species_name == IF "species" \in pet_data.keys THEN pet_data.species
                            ELSE SpeciesName("OTHER")
            species      == Species_getitem(species_name).member
        IN  IF "name" \notin pet_data.keys THEN [raised |-> "KeyError", pets |-> acc]
            ELSE IF "age" \notin pet_data.keys THEN [raised |-> "KeyError", pets |-> acc]
            ELSE LET r == Pet(pet_data.name, species, pet_data.age) IN
                 IF r.raised # "none" THEN [raised |-> r.raised, pets |-> acc]
                 ELSE load_items(Tail(items), Append(acc, r.pet))

\* Faulty variant: the records of the file are added to those of the store.
load_result_merge(list, content) ==
    IF content.kind = "absent" THEN [raised |-> "FileNotFoundError", pets |-> list]
    ELSE IF content.kind = "garbage" THEN [raised |-> "JSONDecodeError", pets |-> list]
    ELSE IF content.kind = "number" THEN [raised |-> "TypeError", pets |-> list]
    ELSE load_items(content.items, list)

\* Faulty variant: the store is emptied before the file is looked at.
load_result_clear_first(list, content) ==
    IF content.kind = "absent" THEN [raised |-> "FileNotFoundError", pets |-> <<>>]
    ELSE IF content.kind = "garbage" THEN [raised |-> "JSONDecodeError", pets |-> <<>>]
    ELSE IF content.kind = "number" THEN [raised |-> "TypeError", pets |-> <<>>]
    ELSE load_items(content.items, <<>>)

\* load_from_file on a store holding list: the exception raised and the list
\* the store holds afterwards. The existence check and json.load come before
\* self.pets = []; the loop over the parsed value comes after it, so a value
\* that cannot be iterated (TypeError) or a bad entry leaves what was built.
load_result(list, content) ==
    IF content.kind = "absent" THEN [raised |-> "FileNotFoundError", pets |-> list]
    ELSE IF content.kind = "garbage" THEN [raised |-> "JSONDecodeError", pets |-> list]
    ELSE IF content.kind = "number" THEN [raised |-> "TypeError", pets |-> <<>>]
    ELSE load_items(content.items, <<>>)

-----------------------------------------------------------------------------
\* class PetContainer

\* str(n) for an integer: the decimal digits, "-" first when negative.
RECURSIVE int_str(_)
int_str(n) ==
    IF n < 0 THEN <<45>> \o int_str(0 - n)
    ELSE IF n < 10 THEN <<48 + n>>
    ELSE int_str(n \div 10) \o <<48 + (n % 10)>>

\* "-" * 40
dashes == [i \in 1..40 |-> 45]

\* "\n".join(lines)
RECURSIVE join_lines(_)
join_lines(lines) ==
    IF lines = <<>> THEN <<>>
    ELSE IF Len(lines) = 1 THEN lines[1]
    ELSE lines[1] \o <<10>> \o join_lines(Tail(lines))

\* Faulty variant: the lines are numbered from 0.
pet_line_from_zero(i, pet) ==
    int_str(i - 1) \o <<46, 32>> \o pet.name \o <<32, 45, 32>>
        \o SpeciesValue(pet.species) \o <<44, 32>> \o int_str(pet.age)
        \o <<32, 1083, 1077, 1090>>

\* f"{i}. {pet.name} - {pet.species}, {pet.age} лет"
pet_line(i, pet) ==
    int_str(i) \o <<46, 32>> \o pet.name \o <<32, 45, 32>>
        \o SpeciesValue(pet.species) \o <<44, 32>> \o int_str(pet.age)
        \o <<32, 1083, 1077, 1090>>

\* "Список питомцев пуст."
empty_text ==
    <<1057, 1087, 1080, 1089, 1086, 1082, 32, 1087, 1080, 1090, 1086, 1084,
      1094, 1077, 1074, 32, 1087, 1091, 1089, 1090, 46>>

\* "\nСписок всех питомцев:"
header_text ==
    <<10, 1057, 1087, 1080, 1089, 1086, 1082, 32, 1074, 1089, 1077, 1093, 32,
      1087, 1080, 1090, 1086, 1084, 1094, 1077, 1074, 58>>

\* f"Всего: {len(self.pets)} питомцев"
total_line(n) ==
    <<1042, 1089, 1077, 1075, 1086, 58, 32>> \o int_str(n)
        \o <<32, 1087, 1080, 1090, 1086, 1084, 1094, 1077, 1074>>

\* The string show_all returns.
show_text(list) ==
    IF list = <<>> THEN empty_text
    ELSE join_lines(<<header_text, dashes>>
                    \o [i \in 1..Len(list) |-> pet_line(i, list[i])]
                    \o <<dashes, total_line(Len(list))>>)

\* sum(pet.age for pet in self.pets)
RECURSIVE sum_ages(_)
sum_ages(list) ==
    IF list = <<>> THEN 0 ELSE Head(list).age + sum_ages(Tail(list))

RECURSIVE gcd(_, _)
gcd(a, b) == IF b = 0 THEN a ELSE gcd(b, a % b)

\* Faulty variant: floor division, a // b.
truediv_floor(a, b) == [num |-> a \div b, den |-> 1]

\* a / b for a >= 0, b > 0: the quotient, kept exact as a fraction in lowest
\* terms (the rounding of the float result is not modelled).
truediv(a, b) == [num |-> a \div gcd(a, b), den |-> b \div gcd(a, b)]

\* A dict without keys.
EmptyDict == [t \in {} |-> 0]

\* The loop of get_statistics: dict[name] = dict.get(name, 0) + 1 per pet.
RECURSIVE count_by_species(_, _)
count_by_species(list, acc) ==
    IF list = <<>> THEN acc
    ELSE LET species_name == Head(list).species IN
         count_by_species(Tail(list),
            IF species_name \in DOMAIN acc
            THEN [acc EXCEPT ![species_name] = @ + 1]
            ELSE acc @@ (species_name :> 1))

\* The value of stats after a call that is not get_statistics.
NoStats ==
    [keys |-> {}, total |-> 0, by_species |-> EmptyDict,
     average_age |-> [num |-> 0, den |-> 1]]

\* Faulty variant: the empty store reports all three keys, with zero values.
get_stats_zero_fields(list) ==
    [keys |-> {"total", "by_species", "average_age"},
     total |-> Len(list),
     by_species |-> count_by_species(list, EmptyDict),
     average_age |-> IF list = <<>> THEN [num |-> 0, den |-> 1]
                     ELSE truediv(sum_ages(list), Len(list))]

\* Faulty variant: by_species starts with every member at 0.
get_stats_all_tags(list) ==
    IF list = <<>>
    THEN [keys |-> {"total"}, total |-> 0, by_species |-> EmptyDict,
          average_age |-> [num |-> 0, den |-> 1]]
    ELSE [keys |-> {"total", "by_species", "average_age"},
          total |-> Len(list),
          by_species |-> count_by_species(list, [t \in Species |-> 0]),
          average_age |-> truediv(sum_ages(list), Len(list))]

\* The dict get_statistics returns: keys are the keys present; the fields of
\* absent keys hold the placeholders of NoStats.
get_stats(list) ==
    IF list = <<>>
    THEN [keys |-> {"total"}, total |-> 0, by_species |-> EmptyDict,
          average_age |-> [num |-> 0, den |-> 1]]
    ELSE [keys |-> {"total", "by_species", "average_age"},
          total |-> Len(list),
          by_species |-> count_by_species(list, EmptyDict),
          average_age |-> truediv(sum_ages(list), Len(list))]

\* Faulty variant: the search keeps its result in the store.
find_store_filtered(list, species_str) ==
    LET g == Species_getitem(replace_space(upper(species_str))) IN
    IF ~g.found THEN list
    ELSE SelectSeq(list, LAMBDA pet : pet.species = g.member)

\* self.pets after find_by_species: the comprehension builds a new list and
\* self.pets is not assigned.
find_store(list, species_str) == list

\* Faulty variant: the lookup without .upper().
species_lookup_nocase(species_str) == Species_getitem(replace_space(species_str))

\* The species lookup shared by add_pet and find_by_species:
\* Species[species_str.upper().replace(" ", "_")].
species_lookup(species_str) == Species_getitem(replace_space(upper(species_str)))

\* Faulty variant: only the first match is returned.
find_result_first(list, species_str) ==
    LET g == Species_getitem(replace_space(upper(species_str)))
        m == SelectSeq(list, LAMBDA pet : pet.species = g.member)
    IN  IF ~g.found \/ m = <<>> THEN <<>> ELSE <<m[1]>>

\* Faulty variant: the query is looked up as typed, without .upper().
find_result_case_sensitive(list, species_str) ==
    LET g == Species_getitem(replace_space(species_str)) IN
    IF ~g.found THEN <<>>
    ELSE SelectSeq(list, LAMBDA pet : pet.species = g.member)

\* What find_by_species returns on a list of pets: the empty list on
\* KeyError, else the pets of that species in list order.
find_result(list, species_str) ==
    LET g == species_lookup(species_str) IN
    IF ~g.found THEN <<>>
    ELSE SelectSeq(list, LAMBDA pet : pet.species = g.member)

\* Faulty variant: the KeyError of the lookup is not caught.
add_species_nocatch(species_str) ==
    LET g == Species_getitem(replace_space(upper(species_str))) IN
    [raised |-> IF g.found THEN "none" ELSE "KeyError", species |-> g.member]

\* The try/except of add_pet: the member found, OTHER on KeyError; the
\* KeyError is caught, so nothing is raised.
add_species(species_str) ==
    LET g == species_lookup(species_str) IN
    [raised |-> "none", species |-> IF g.found THEN g.member ELSE "OTHER"]

\* Faulty variant: the new record is put first.
list_prepend(list, pet) == <<pet>> \o list

\* Faulty variant: a record equal to one of the list is not added again.
list_append_unique(list, pet) ==
    IF \E i \in 1..Len(list) : list[i] = pet THEN list ELSE Append(list, pet)

\* self.pets.append(pet)
list_append(list, pet) == Append(list, pet)

add_pet(name, species_str, age) ==
    LET s == add_species(species_str)
        r == Pet(name, s.species, age)
    IN
    /\ op' = "add_pet"
    /\ UNCHANGED frontend
    /\ args' = [name |-> name, species_str |-> species_str, age |-> age]
    /\ pre' = pets
    /\ filepre' = files
    /\ text' = <<>>
    /\ stats' = NoStats
    /\ IF s.raised # "none"
       THEN /\ pets' = pets
            /\ ret' = <<>>
            /\ err' = s.raised
       ELSE IF r.raised # "none"
       THEN /\ pets' = pets
            /\ ret' = <<>>
            /\ err' = r.raised
       ELSE /\ pets' = list_append(pets, r.pet)
            /\ ret' = <<r.pet>>
            /\ err' = "none"
    /\ UNCHANGED files

find_by_species(species_str) ==
    /\ op' = "find_by_species"
    /\ UNCHANGED frontend
    /\ args' = [species_str |-> species_str]
    /\ pre' = pets
    /\ filepre' = files
    /\ text' = <<>>
    /\ stats' = NoStats
    /\ ret' = find_result(pets, species_str)
    /\ err' = "none"
    /\ pets' = find_store(pets, species_str)
    /\ UNCHANGED files

sort_by_age(reverse) ==
    /\ op' = "sort_by_age"
    /\ UNCHANGED frontend
    /\ args' = [reverse |-> reverse]
    /\ pre' = pets
    /\ filepre' = files
    /\ text' = <<>>
    /\ stats' = NoStats
    /\ pets' = list_sort(pets, "age", reverse)
    /\ ret' = <<>>
    /\ err' = "none"
    /\ UNCHANGED files

sort_by_name ==
    /\ op' = "sort_by_name"
    /\ UNCHANGED frontend
    /\ args' = [reverse |-> FALSE]
    /\ pre' = pets
    /\ filepre' = files
    /\ text' = <<>>
    /\ stats' = NoStats
    /\ pets' = list_sort(pets, "name", FALSE)
    /\ ret' = <<>>
    /\ err' = "none"
    /\ UNCHANGED files

save_to_file(filename) ==
    /\ op' = "save_to_file"
    /\ UNCHANGED frontend
    /\ args' = [filename |-> filename]
    /\ pre' = pets
    /\ filepre' = files
    /\ text' = <<>>
    /\ stats' = NoStats
    /\ files' = [files EXCEPT ![filename] = save_content(files[filename], pets)]
    /\ ret' = <<>>
    /\ err' = "none"
    /\ UNCHANGED pets

load_from_file(filename) ==
    /\ op' = "load_from_file"
    /\ UNCHANGED frontend
    /\ args' = [filename |-> filename]
    /\ pre' = pets
    /\ filepre' = files
    /\ text' = <<>>
    /\ stats' = NoStats
    /\ ret' = <<>>
    /\ UNCHANGED files
    /\ LET r == load_result(pets, files[filename]) IN
          /\ pets' = r.pets
          /\ err' = r.raised

\* Pet(...) constructed directly, outside the container.
new_pet(name, species, age) ==
    LET r == Pet(name, species, age) IN
    /\ op' = "Pet"
    /\ UNCHANGED frontend
    /\ args' = [name |-> name, species |-> species, age |-> age]
    /\ pre' = pets
    /\ filepre' = files
    /\ text' = <<>>
    /\ stats' = NoStats
    /\ ret' = IF r.raised = "none" THEN <<r.pet>> ELSE <<>>
    /\ err' = r.raised
    /\ UNCHANGED <<pets, files>>

\* Species.from_string(s), as the tests call it: the attribute is looked up
\* on the class before anything is done with s.
from_string(s) ==
    /\ op' = "Species.from_string"
    /\ UNCHANGED frontend
    /\ args' = [s |-> s]
    /\ pre' = pets
    /\ filepre' = files
    /\ text' = <<>>
    /\ stats' = NoStats
    /\ ret' = <<>>
    /\ err' = IF Species_getattr("from_string").found THEN "none"
              ELSE "AttributeError"
    /\ UNCHANGED <<pets, files>>

show_all ==
    /\ op' = "show_all"
    /\ UNCHANGED frontend
    /\ args' = [none |-> TRUE]
    /\ pre' = pets
    /\ filepre' = files
    /\ text' = show_text(pets)
    /\ stats' = NoStats
    /\ ret' = <<>>
    /\ err' = "none"
    /\ UNCHANGED <<pets, files>>

get_statistics ==
    /\ op' = "get_statistics"
    /\ UNCHANGED frontend
    /\ args' = [none |-> TRUE]
    /\ pre' = pets
    /\ filepre' = files
    /\ text' = <<>>
    /\ stats' = get_stats(pets)
    /\ ret' = <<>>
    /\ err' = "none"
    /\ UNCHANGED <<pets, files>>

\* The round trip of the tests: save_to_file(filename), then
\* PetContainer().load_from_file(filename); ret is the list of the new
\* container and err what its load raised.
save_and_load(filename) ==
    LET content == save_content(files[filename], pets)
        r       == load_result(<<>>, content)
    IN
    /\ op' = "save_and_load"
    /\ UNCHANGED frontend
    /\ args' = [filename |-> filename]
    /\ pre' = pets
    /\ filepre' = files
    /\ text' = <<>>
    /\ stats' = NoStats
    /\ files' = [files EXCEPT ![filename] = content]
    /\ ret' = r.pets
    /\ err' = r.raised
    /\ UNCHANGED pets

-----------------------------------------------------------------------------
\* class InteractivePetCLI (src/tasks/pets_interactive.py)
\*
\* The user is a script: the sequence of what input() returns or raises on
\* its next calls.  A printed message is recorded by a short tag.

\* self.default_file
default_file == "pets.json"

\* The name of a path as a Python string: "pets.json".
path_name(p) == <<112, 101, 116, 115, 46, 106, 115, 111, 110>>

\* The path a file name denotes; the names entered are those of Paths.
path_of(filename) == CHOOSE p \in Paths : path_name(p) = filename

\* An entry of the script: a line the user types, or Ctrl-C at the prompt.
Line(s) == [kind |-> "line", s |-> s]
CtrlC == [kind |-> "KeyboardInterrupt", s |-> <<>>]

\* input(prompt) with ins left in the script: the line typed, or the
\* exception raised, and what is left afterwards.  When the script has run
\* out, every call raises EOFError (StopIteration under the tests' mock):
\* an Exception that is not KeyboardInterrupt.
input(ins) ==
    IF ins = <<>>
    THEN [raised |-> "EOFError", value |-> <<>>, rest |-> <<>>]
    ELSE IF Head(ins).kind = "KeyboardInterrupt"
    THEN [raised |-> "KeyboardInterrupt", value |-> <<>>, rest |-> Tail(ins)]
    ELSE [raised |-> "none", value |-> Head(ins).s, rest |-> Tail(ins)]

\* The value of a string of decimal digits.
RECURSIVE digits_value(_)
digits_value(d) ==
    IF d = <<>> THEN 0
    ELSE 10 * digits_value(SubSeq(d, 1, Len(d) - 1)) + (d[Len(d)] - 48)

\* Faulty variant: text that is no number counts as 0.
int_parse_lenient(s) == [raised |-> "none", value |-> 0]

\* int(s) for a string: surrounding whitespace is dropped, one sign is
\* allowed, then ASCII digits with single underscores between them; anything
\* else is ValueError.  Digits of other scripts are not modelled.
int_parse(s) ==
    LET t      == strip(s)
        signed == t # <<>> /\ t[1] \in {43, 45}
        body   == IF signed THEN Tail(t) ELSE t
        wellformed ==
            /\ body # <<>>
            /\ body[1] \in 48..57
            /\ body[Len(body)] \in 48..57
            /\ \A i \in 1..Len(body) : body[i] \in 48..57 \/ body[i] = 95
            /\ \A i \in 1..(Len(body) - 1) : ~(body[i] = 95 /\ body[i + 1] = 95)
        magnitude == digits_value(SelectSeq(body, LAMBDA c : c \in 48..57))
    IN  IF ~wellformed THEN [raised |-> "ValueError", value |-> 0]
        ELSE [raised |-> "none",
              value |-> IF t[1] = 45 THEN 0 - magnitude ELSE magnitude]

\* What a method of the front end leaves behind: the store, the files, the
\* rest of the script, the messages printed and the exception that left it.
Outcome(list, fs, ins, printed, raised) ==
    [pets |-> list, files |-> fs, inputs |-> ins, out |-> printed,
     raised |-> raised]

add_pet_interactive(list, fs, ins) ==
    LET r1   == input(ins)
        name == strip(r1.value)
        r2   == input(r1.rest)
        species_input == upper(strip(r2.value))
        r3   == input(r2.rest)
        age  == int_parse(r3.value)
        s    == add_species(species_input)
        p    == Pet(name, s.species, age.value)
    IN  IF r1.raised # "none"
        THEN Outcome(list, fs, r1.rest, <<"add_header">>, r1.raised)
        ELSE IF name = <<>>
        THEN Outcome(list, fs, r1.rest, <<"add_header", "name_empty">>, "none")
        ELSE IF r2.raised # "none"
        THEN Outcome(list, fs, r2.rest, <<"add_header", "species_list">>,
                     r2.raised)
        ELSE IF r3.raised # "none"
        THEN Outcome(list, fs, r3.rest, <<"add_header", "species_list">>,
                     r3.raised)
        ELSE IF age.raised # "none"
        THEN Outcome(list, fs, r3.rest,
                     <<"add_header", "species_list", "age_not_number">>, "none")
        ELSE IF s.raised # "none" \/ p.raised # "none"
        THEN Outcome(list, fs, r3.rest,
                     <<"add_header", "species_list", "error">>, "none")
        ELSE Outcome(list_append(list, p.pet), fs, r3.rest,
                     <<"add_header", "species_list", "added">>, "none")

find_pets_interactive(list, fs, ins) ==
    LET r == input(ins)
        species_input == upper(strip(r.value))
        found == find_result(list, species_input)
    IN  IF r.raised # "none"
        THEN Outcome(list, fs, r.rest, <<"find_header", "species_list">>,
                     r.raised)
        ELSE IF found = <<>>
        THEN Outcome(find_store(list, species_input), fs, r.rest,
                     <<"find_header", "species_list", "not_found">>, "none")
        ELSE Outcome(find_store(list, species_input), fs, r.rest,
                     <<"find_header", "species_list", "found">>, "none")

sort_pets_interactive(list, fs, ins) ==
    LET r      == input(ins)
        choice == strip(r.value)
    IN  IF r.raised # "none"
        THEN Outcome(list, fs, r.rest, <<"sort_header">>, r.raised)
        ELSE IF choice = <<49>>
        THEN Outcome(list_sort(list, "name", FALSE), fs, r.rest,
                     <<"sort_header", "sorted_name">>, "none")
        ELSE IF choice = <<50>>
        THEN Outcome(list_sort(list, "age", FALSE), fs, r.rest,
                     <<"sort_header", "sorted_age">>, "none")
        ELSE IF choice = <<51>>
        THEN Outcome(list_sort(list, "age", TRUE), fs, r.rest,
                     <<"sort_header", "sorted_age_desc">>, "none")
        ELSE Outcome(list, fs, r.rest, <<"sort_header", "bad_sort_choice">>,
                     "none")

\* Prints the dict of get_statistics; every key of by_species is a member
\* name, so Species[species] finds it.
show_statistics(list, fs, ins) ==
    Outcome(list, fs, ins, <<"statistics">>, "none")

save_data_interactive(list, fs, ins) ==
    LET r == input(ins)
        filename == IF strip(r.value) = <<>> THEN default_file
                    ELSE path_of(strip(r.value))
    IN  IF r.raised # "none" THEN Outcome(list, fs, r.rest, <<>>, r.raised)
        ELSE Outcome(list,
                     [fs EXCEPT ![filename] = save_content(fs[filename], list)],
                     r.rest, <<"saved">>, "none")

load_data_interactive(list, fs, ins) ==
    LET r == input(ins)
        filename == IF strip(r.value) = <<>> THEN default_file
                    ELSE path_of(strip(r.value))
        l == load_result(list, fs[filename])
    IN  IF r.raised # "none" THEN Outcome(list, fs, r.rest, <<>>, r.raised)
        ELSE IF l.raised = "none"
        THEN Outcome(l.pets, fs, r.rest, <<"loaded">>, "none")
        ELSE IF l.raised = "FileNotFoundError"
        THEN Outcome(l.pets, fs, r.rest, <<"file_missing">>, "none")
        ELSE Outcome(l.pets, fs, r.rest, <<"load_error">>, "none")

\* Faulty variant: an answer in upper case does not save.
run_exit_case_sensitive(list, fs, ins) ==
    LET r == input(ins) IN
    IF list = <<>> THEN Outcome(list, fs, ins, <<"goodbye">>, "none")
    ELSE IF r.raised # "none" THEN Outcome(list, fs, r.rest, <<>>, r.raised)
    ELSE IF r.value = <<121>>
    THEN Outcome(list,
                 [fs EXCEPT ![default_file] =
                                save_content(fs[default_file], list)],
                 r.rest, <<"saved", "goodbye">>, "none")
    ELSE Outcome(list, fs, r.rest, <<"goodbye">>, "none")

\* The branch of run for choice "8", up to the break: the save prompt is
\* shown for a non-empty store only, and the answer is lower-cased.
run_exit(list, fs, ins) ==
    LET r == input(ins)
        save_choice == lower(r.value)
    IN  IF list = <<>> THEN Outcome(list, fs, ins, <<"goodbye">>, "none")
        ELSE IF r.raised # "none" THEN Outcome(list, fs, r.rest, <<>>, r.raised)
        ELSE IF save_choice = <<121>>
        THEN Outcome(list,
                     [fs EXCEPT ![default_file] =
                                    save_content(fs[default_file], list)],
                     r.rest, <<"saved", "goodbye">>, "none")
        ELSE Outcome(list, fs, r.rest, <<"goodbye">>, "none")

\* The if/elif chain of run on the trimmed choice.
run_choice(choice, list, fs, ins) ==
    CASE choice = <<49>> -> add_pet_interactive(list, fs, ins)
      [] choice = <<50>> -> Outcome(list, fs, ins, <<"list">>, "none")
      [] choice = <<51>> -> find_pets_interactive(list, fs, ins)
      [] choice = <<52>> -> sort_pets_interactive(list, fs, ins)
      [] choice = <<53>> -> show_statistics(list, fs, ins)
      [] choice = <<54>> -> save_data_interactive(list, fs, ins)
      [] choice = <<55>> -> load_data_interactive(list, fs, ins)
      [] choice = <<56>> -> run_exit(list, fs, ins)
      [] OTHER -> Outcome(list, fs, ins, <<"bad_choice">>, "none")

\* One pass of the while loop of run: the menu, the choice and its branch,
\* with the two except clauses.  done: the loop was left by a break.
run_pass(list, fs, ins) ==
    LET c      == input(ins)
        choice == strip(c.value)
        h      == IF c.raised # "none"
                  THEN Outcome(list, fs, c.rest, <<>>, c.raised)
                  ELSE run_choice(choice, list, fs, c.rest)
    IN  [pets   |-> h.pets,
         files  |-> h.files,
         inputs |-> h.inputs,
         raised |-> h.raised,
         out    |-> <<"menu">> \o h.out \o
                    (IF h.raised = "KeyboardInterrupt" THEN <<"interrupted">>
                     ELSE IF h.raised # "none" THEN <<"unexpected_error">>
                     ELSE <<>>),
         done   |-> \/ h.raised = "KeyboardInterrupt"
                    \/ (h.raised = "none" /\ c.raised = "none" /\ choice = <<56>>),
         text   |-> IF c.raised = "none" /\ choice = <<50>>
                    THEN show_text(list) ELSE <<>>,
         stats  |-> IF c.raised = "none" /\ choice = <<53>>
                    THEN get_stats(list) ELSE NoStats]

\* main(): the program is started.  The front end is constructed with an
\* empty store; script is what the user will type and content what
\* pets.json holds at that moment.
main(script, content) ==
    /\ pc = "idle"
    /\ pc' = "start"
    /\ op' = "main"
    /\ args' = [inputs |-> script]
    /\ pre' = pets
    /\ filepre' = files
    /\ text' = <<>>
    /\ stats' = NoStats
    /\ ret' = <<>>
    /\ pets' = <<>>
    /\ files' = [files EXCEPT ![default_file] = content]
    /\ inputs' = script
    /\ err' = "none"
    /\ out' = <<>>
    /\ menus' = 0
    /\ UNCHANGED code

\* The start of run: load_default_file.  The file is loaded when it exists;
\* an exception of the load is printed and the store is left as the failed
\* load left it.
load_default_file ==
    LET exists == files[default_file].kind # "absent"
        l      == load_result(pets, files[default_file])
    IN
    /\ pc = "start"
    /\ pc' = "menu"
    /\ op' = "load_default_file"
    /\ args' = [none |-> TRUE]
    /\ pre' = pets
    /\ filepre' = files
    /\ text' = <<>>
    /\ stats' = NoStats
    /\ ret' = <<>>
    /\ pets' = IF exists THEN l.pets ELSE pets
    /\ err' = "none"
    /\ out' = IF ~exists THEN <<>>
              ELSE IF l.raised = "none" THEN <<"default_loaded">>
              ELSE <<"default_load_error">>
    /\ UNCHANGED <<files, inputs, menus, code>>

\* One pass of the loop of run: print_menu, then the choice and its branch;
\* err is the exception the loop caught.
run ==
    LET r == run_pass(pets, files, inputs) IN
    /\ pc = "menu"
    /\ pc' = IF r.done THEN "done" ELSE "menu"
    /\ op' = "run"
    /\ args' = [inputs |-> inputs]
    /\ pre' = pets
    /\ filepre' = files
    /\ text' = r.text
    /\ stats' = r.stats
    /\ ret' = <<>>
    /\ pets' = r.pets
    /\ files' = r.files
    /\ inputs' = r.inputs
    /\ err' = r.raised
    /\ out' = r.out
    /\ menus' = (menus + 1) % MenuModulus
    /\ UNCHANGED code

\* add_pet_interactive called on its own, as the tests do, with script as
\* what the user will type; err is the exception that left the method.
call_add_pet_interactive(script) ==
    LET r == add_pet_interactive(pets, files, script) IN
    /\ pc = "idle"
    /\ op' = "add_pet_interactive"
    /\ args' = [inputs |-> script]
    /\ pre' = pets
    /\ filepre' = files
    /\ text' = <<>>
    /\ stats' = NoStats
    /\ ret' = <<>>
    /\ pets' = r.pets
    /\ files' = r.files
    /\ inputs' = r.inputs
    /\ err' = r.raised
    /\ out' = r.out
    /\ UNCHANGED <<pc, menus, code>>

-----------------------------------------------------------------------------
\* The command-line front ends (src/tasks/pets_cli.py)
\*
\* Every call is one process: it starts with a new, empty PetContainer.  The
\* arguments are a record; a field a command does not have is "".  The
\* species is one of the member names (choices=[s.name for s in Species]).

\* What a command leaves behind: the container, the files, the exit status,
\* the messages printed and the record it added.
CliOutcome(list, fs, status, printed, added) ==
    [pets |-> list, files |-> fs, code |-> status, out |-> printed,
     ret |-> added]

\* The sort of the sort command, by its --by option.
sort_by(list, by) ==
    IF by = "name" THEN list_sort(list, "name", FALSE)
    ELSE IF by = "age" THEN list_sort(list, "age", FALSE)
    ELSE IF by = "age-desc" THEN list_sort(list, "age", TRUE)
    ELSE list

\* The if/elif chain of run_argparse_command on a container holding list.
argparse_branch(a, list, fs) ==
    CASE a.command = "add" ->
            LET s == add_species(SpeciesName(a.species))
                p == Pet(a.name, s.species, a.age)
                added == list_append(list, p.pet)
            IN  IF s.raised # "none" \/ p.raised # "none"
                THEN CliOutcome(list, fs, 1, <<"error">>, <<>>)
                ELSE CliOutcome(added,
                                [fs EXCEPT ![a.file] =
                                               save_content(fs[a.file], added)],
                                0, <<"added">>, <<p.pet>>)
      [] a.command = "list" -> CliOutcome(list, fs, 0, <<"list">>, <<>>)
      [] a.command = "find" ->
            IF find_result(list, SpeciesName(a.species)) = <<>>
            THEN CliOutcome(find_store(list, SpeciesName(a.species)), fs, 1,
                            <<"not_found">>, <<>>)
            ELSE CliOutcome(find_store(list, SpeciesName(a.species)), fs, 0,
                            <<"found">>, <<>>)
      [] a.command = "stats" -> CliOutcome(list, fs, 0, <<"statistics">>, <<>>)
      [] a.command = "save" ->
            CliOutcome(list,
                       [fs EXCEPT ![a.file] = save_content(fs[a.file], list)],
                       0, <<"saved">>, <<>>)
      [] a.command = "load" ->
            LET l == load_result(list, fs[a.file]) IN
            IF l.raised # "none"
            THEN CliOutcome(l.pets, fs, 1, <<"load_error">>, <<>>)
            ELSE CliOutcome(l.pets, fs, 0, <<"loaded", "list">>, <<>>)
      [] a.command = "sort" ->
            LET sorted == sort_by(list, a.by) IN
            CliOutcome(sorted,
                       [fs EXCEPT ![a.file] = save_content(fs[a.file], sorted)],
                       0, <<"sorted">>, <<>>)

\* run_argparse_command(args): the file (for save: the input file, when one
\* is given) is loaded first if it exists, and a failure of that load ends
\* the command with status 1.
run_argparse_command(a, fs) ==
    LET file_to_load == IF a.input_file # "" THEN a.input_file ELSE a.file
        exists == fs[file_to_load].kind # "absent"
        l == IF exists THEN load_result(<<>>, fs[file_to_load])
             ELSE [raised |-> "none", pets |-> <<>>]
    IN  IF l.raised # "none"
        THEN CliOutcome(l.pets, fs, 1, <<"load_error">>, <<>>)
        ELSE argparse_branch(a, l.pets, fs)

\* The load that list, find, stats and sort of the click interface start
\* with: the file is loaded if it exists, an exception is printed and the
\* command goes on with what the container holds.
click_load_if_exists(file, fs) ==
    IF fs[file].kind = "absent" THEN [raised |-> "none", pets |-> <<>>]
    ELSE load_result(<<>>, fs[file])

\* click: add.  The container is the new one of the group callback; the
\* file is not loaded.
click_add(a, fs) ==
    LET s == add_species(SpeciesName(a.species))
        p == Pet(a.name, s.species, a.age)
        added == list_append(<<>>, p.pet)
    IN  IF s.raised # "none" \/ p.raised # "none"
        THEN CliOutcome(<<>>, fs, 0, <<"error">>, <<>>)
        ELSE CliOutcome(added,
                        [fs EXCEPT ![a.file] = save_content(fs[a.file], added)],
                        0, <<"added">>, <<p.pet>>)

\* click: list
list_pets(a, fs) ==
    LET l == click_load_if_exists(a.file, fs) IN
    CliOutcome(l.pets, fs, 0,
               IF l.raised # "none" THEN <<"load_error", "list">>
               ELSE <<"list">>, <<>>)

\* click: find
click_find(a, fs) ==
    LET l == click_load_if_exists(a.file, fs)
        e == IF l.raised # "none" THEN <<"load_error">> ELSE <<>>
    IN  IF find_result(l.pets, SpeciesName(a.species)) = <<>>
        THEN CliOutcome(find_store(l.pets, SpeciesName(a.species)), fs, 0,
                        e \o <<"not_found">>, <<>>)
        ELSE CliOutcome(find_store(l.pets, SpeciesName(a.species)), fs, 0,
                        e \o <<"found">>, <<>>)

\* click: stats
click_stats(a, fs) ==
    LET l == click_load_if_exists(a.file, fs) IN
    CliOutcome(l.pets, fs, 0,
               IF l.raised # "none" THEN <<"load_error", "statistics">>
               ELSE <<"statistics">>, <<>>)

\* click: save.  The container is the new, empty one.
click_save(a, fs) ==
    CliOutcome(<<>>, [fs EXCEPT ![a.file] = save_content(fs[a.file], <<>>)],
               0, <<"saved">>, <<>>)

\* click: load
click_load(a, fs) ==
    LET l == load_result(<<>>, fs[a.file]) IN
    CliOutcome(l.pets, fs, 0,
               IF l.raised # "none" THEN <<"load_error">> ELSE <<"loaded">>,
               <<>>)

\* click: sort.  The save follows whether the load succeeded or not.
click_sort(a, fs) ==
    LET l == click_load_if_exists(a.file, fs)
        sorted == sort_by(l.pets, a.by)
    IN  CliOutcome(sorted,
                   [fs EXCEPT ![a.file] = save_content(fs[a.file], sorted)], 0,
                   IF l.raised # "none" THEN <<"load_error", "sorted">>
                   ELSE <<"sorted">>, <<>>)

\* ("Барсик", "CAT", 3), ("Шарик", "DOG", 5), ("Мурка", "CAT", 2),
\* ("Кеша", "BIRD", 1), ("Рекс", "DOG", 4)
demo_pets ==
    << [name |-> <<1041, 1072, 1088, 1089, 1080, 1082>>, species |-> "CAT",
        age |-> 3],
       [name |-> <<1064, 1072, 1088, 1080, 1082>>, species |-> "DOG",
        age |-> 5],
       [name |-> <<1052, 1091, 1088, 1082, 1072>>, species |-> "CAT",
        age |-> 2],
       [name |-> <<1050, 1077, 1096, 1072>>, species |-> "BIRD", age |-> 1],
       [name |-> <<1056, 1077, 1082, 1089>>, species |-> "DOG", age |-> 4] >>

\* click: demo.  The five records are added and saved to demo_pets.json,
\* which is not one of Paths: the files of the model stay as they are.
demo(a, fs) ==
    CliOutcome([i \in 1..Len(demo_pets) |->
                   Pet(demo_pets[i].name,
                       add_species(SpeciesName(demo_pets[i].species)).species,
                       demo_pets[i].age).pet],
               fs, 0, <<"demo", "list">>, <<>>)

\* The click group: the sub-command named on the command line.
click_command(a, fs) ==
    CASE a.command = "add"   -> click_add(a, fs)
      [] a.command = "list"  -> list_pets(a, fs)
      [] a.command = "find"  -> click_find(a, fs)
      [] a.command = "stats" -> click_stats(a, fs)
      [] a.command = "save"  -> click_save(a, fs)
      [] a.command = "load"  -> click_load(a, fs)
      [] a.command = "sort"  -> click_sort(a, fs)
      [] a.command = "demo"  -> demo(a, fs)

\* python pets_cli.py <command> ...: one run of the argparse interface.
argparse_main(a) ==
    LET r == run_argparse_command(a, files) IN
    /\ op' = "argparse"
    /\ args' = a
    /\ pre' = <<>>
    /\ filepre' = files
    /\ text' = <<>>
    /\ stats' = NoStats
    /\ ret' = r.ret
    /\ pets' = r.pets
    /\ files' = r.files
    /\ err' = "none"
    /\ out' = r.out
    /\ code' = r.code
    /\ UNCHANGED <<inputs, pc, menus>>

\* python pets_cli.py --click <command> ...: one run of the click interface.
click_main(a) ==
    LET r == click_command(a, files) IN
    /\ op' = "click"
    /\ args' = a
    /\ pre' = <<>>
    /\ filepre' = files
    /\ text' = <<>>
    /\ stats' = NoStats
    /\ ret' = r.ret
    /\ pets' = r.pets
    /\ files' = r.files
    /\ err' = "none"
    /\ out' = r.out
    /\ code' = r.code
    /\ UNCHANGED <<inputs, pc, menus>>

-----------------------------------------------------------------------------
\* Spec: the in-memory operations of the store on small inputs.

\* "B", " a", " "
Names == { <<66>>, <<32, 97>>, <<32>> }
\* "Cat", " cat ", "dragon"
SpeciesStrs == { <<67, 97, 116>>, <<32, 99, 97, 116, 32>>,
                 <<100, 114, 97, 103, 111, 110>> }
\* the search queries: the above and "other"
Queries == SpeciesStrs \cup { <<111, 116, 104, 101, 114>> }
Ages == {-1, 0, 100, 101}

Init ==
    /\ pets = <<>>
    /\ files = [p \in Paths |-> NoFile]
    /\ op = "init"
    /\ args = [none |-> TRUE]
    /\ pre = <<>>
    /\ filepre = [p \in Paths |-> NoFile]
    /\ text = <<>>
    /\ stats = NoStats
    /\ ret = <<>>
    /\ err = "none"
    /\ inputs = <<>>
    /\ pc = "idle"
    /\ out = <<>>
    /\ menus = 0
    /\ code = 0

Add ==
    /\ Len(pets) < MaxPets
    /\ \E name \in Names, species_str \in SpeciesStrs, age \in Ages :
          add_pet(name, species_str, age)

Find == \E species_str \in Queries : find_by_species(species_str)

SortAge == \E reverse \in BOOLEAN : sort_by_age(reverse)

SortName == sort_by_name

Next == Add \/ Find \/ SortAge \/ SortName

Spec == Init /\ [][Next]_vars

-----------------------------------------------------------------------------
\* SpecInputs: record construction and species parsing on a wide set of
\* input strings, with a store of at most MaxInputPets records.

\* "", " ", "\t ", "B", " B "
InputNames == { <<>>, <<32>>, <<9, 32>>, <<66>>, <<32, 66, 32>> }
InputAges == {-1, 0, 1, 99, 100, 101}
\* "", "cat", "CAT", "Dog", " cat ", "cat ", "c at", "dragon", "other",
\* "rodent", "guinea pig"
InputSpeciesStrs ==
    { <<>>, <<99, 97, 116>>, <<67, 65, 84>>, <<68, 111, 103>>,
      <<32, 99, 97, 116, 32>>, <<99, 97, 116, 32>>, <<99, 32, 97, 116>>,
      <<100, 114, 97, 103, 111, 110>>, <<111, 116, 104, 101, 114>>,
      <<114, 111, 100, 101, 110, 116>>,
      <<103, 117, 105, 110, 101, 97, 32, 112, 105, 103>> }

NewPet ==
    \E name \in InputNames, species \in Species, age \in InputAges :
        new_pet(name, species, age)

AddInput ==
    /\ Len(pets) < MaxInputPets
    /\ \E name \in { <<66>>, <<32>> }, species_str \in InputSpeciesStrs,
          age \in {0, 101} :
          add_pet(name, species_str, age)

FindInput == \E species_str \in InputSpeciesStrs : find_by_species(species_str)

FromString == \E s \in InputSpeciesStrs : from_string(s)

NextInputs == NewPet \/ AddInput \/ FindInput \/ FromString

SpecInputs == Init /\ [][NextInputs]_vars

-----------------------------------------------------------------------------
\* SpecFile: the store together with one file, which holds any of the
\* contents below when the program starts.

Obj(keys, name, species, age) ==
    [keys |-> keys, name |-> name, species |-> species, age |-> age]

\* {"name": "B", "species": "CAT", "age": 0}
ObjCat == Obj(AllKeys, <<66>>, <<67, 65, 84>>, 0)

FilePresets ==
    { NoFile,
      Garbage,
      JsonNumber,
      JsonArray(<<>>),
      \* species "DOG", "cat" and a record without the species key
      JsonArray(<< Obj(AllKeys, <<66>>, <<68, 79, 71>>, 100),
                   Obj(AllKeys, <<66>>, <<99, 97, 116>>, 0),
                   Obj({"name", "age"}, <<32, 97>>, <<>>, 0) >>),
      \* species "DRAGON"
      JsonArray(<< Obj(AllKeys, <<66>>, <<68, 82, 65, 71, 79, 78>>, 0) >>),
      \* second record: age 101
      JsonArray(<< ObjCat, Obj(AllKeys, <<66>>, <<67, 65, 84>>, 101) >>),
      \* second record: age -1
      JsonArray(<< ObjCat, Obj(AllKeys, <<66>>, <<67, 65, 84>>, -1) >>),
      \* second record: name " "
      JsonArray(<< ObjCat, Obj(AllKeys, <<32>>, <<67, 65, 84>>, 0) >>),
      \* second record: no name key
      JsonArray(<< ObjCat, Obj({"species", "age"}, <<>>, <<67, 65, 84>>, 0) >>),
      \* second record: no age key
      JsonArray(<< ObjCat, Obj({"name", "species"}, <<66>>, <<67, 65, 84>>, 0) >>) }

InitFile ==
    /\ pets = <<>>
    /\ files \in [Paths -> FilePresets]
    /\ op = "init"
    /\ args = [none |-> TRUE]
    /\ pre = <<>>
    /\ filepre = files
    /\ text = <<>>
    /\ stats = NoStats
    /\ ret = <<>>
    /\ err = "none"
    /\ inputs = <<>>
    /\ pc = "idle"
    /\ out = <<>>
    /\ menus = 0
    /\ code = 0

AddFile ==
    /\ Len(pets) < MaxFilePets
    /\ \E name \in { <<66>>, <<32>> },
          species_str \in { <<67, 97, 116>>, <<100, 114, 97, 103, 111, 110>> },
          age \in {0, 101} :
          add_pet(name, species_str, age)

SortAgeFile == \E reverse \in BOOLEAN : sort_by_age(reverse)

SortNameFile == sort_by_name

SaveFile == \E filename \in Paths : save_to_file(filename)

LoadFile == \E filename \in Paths : load_from_file(filename)

FindFile ==
    \E species_str \in { <<67, 97, 116>>, <<100, 114, 97, 103, 111, 110>> } :
        find_by_species(species_str)

ShowFile == show_all

StatsFile == get_statistics

RoundTripFile == \E filename \in Paths : save_and_load(filename)

NextFile ==
    \/ AddFile \/ SortAgeFile \/ SortNameFile \/ SaveFile \/ LoadFile
    \/ FindFile \/ ShowFile \/ StatsFile \/ RoundTripFile

SpecFile == InitFile /\ [][NextFile]_vars

-----------------------------------------------------------------------------
\* SpecStats: get_statistics on stores built from the ages 1, 2, 3 and 5.

AddStat ==
    /\ Len(pets) < MaxStatPets
    /\ \E species_str \in { <<67, 97, 116>>, <<100, 114, 97, 103, 111, 110>> },
          age \in {1, 2, 3, 5} :
          add_pet(<<66>>, species_str, age)

Stats == get_statistics

NextStats == AddStat \/ Stats

SpecStats == Init /\ [][NextStats]_vars

-----------------------------------------------------------------------------
\* SpecMenu: InteractivePetCLI.run on a script of at most MaxCommands
\* commands, with the default file absent, loadable or unreadable.  The
\* program runs on its own: a pass of the loop that can be taken is taken.

\* What the user types for one command of the menu, complete or cut short.
Commands ==
    { \* "1", "B", "cat", "3": a record that is accepted
      << Line(<<49>>), Line(<<66>>), Line(<<99, 97, 116>>), Line(<<51>>) >>,
      \* "1", " ": a blank name
      << Line(<<49>>), Line(<<32>>) >>,
      \* "1", "B", "cat", "x": an age that is no number
      << Line(<<49>>), Line(<<66>>), Line(<<99, 97, 116>>), Line(<<120>>) >>,
      \* "1", "B", "cat", "101": an age the core rejects
      << Line(<<49>>), Line(<<66>>), Line(<<99, 97, 116>>),
         Line(<<49, 48, 49>>) >>,
      \* "1", "8": the script of test_run_exit_immediately
      << Line(<<49>>), Line(<<56>>) >>,
      \* "1", "B", Ctrl-C at the species prompt
      << Line(<<49>>), Line(<<66>>), CtrlC >>,
      \* "2"
      << Line(<<50>>) >>,
      \* "3", " cat "
      << Line(<<51>>), Line(<<32, 99, 97, 116, 32>>) >>,
      \* "4", "3"
      << Line(<<52>>), Line(<<51>>) >>,
      \* "5"
      << Line(<<53>>) >>,
      \* "6", "": save to the default file
      << Line(<<54>>), Line(<<>>) >>,
      \* "7", "": load the default file
      << Line(<<55>>), Line(<<>>) >>,
      \* "8" and nothing after it
      << Line(<<56>>) >>,
      \* "8", then "y", "Y", "n", " y" or Ctrl-C at the save prompt
      << Line(<<56>>), Line(<<121>>) >>,
      << Line(<<56>>), Line(<<89>>) >>,
      << Line(<<56>>), Line(<<110>>) >>,
      << Line(<<56>>), Line(<<32, 121>>) >>,
      << Line(<<56>>), CtrlC >>,
      \* " 8 "
      << Line(<<32, 56, 32>>) >>,
      \* "9": no menu entry
      << Line(<<57>>) >>,
      \* Ctrl-C at the menu prompt
      << CtrlC >> }

\* The scripts of at most n commands.
RECURSIVE ScriptsUpTo(_)
ScriptsUpTo(n) ==
    IF n = 0 THEN { <<>> }
    ELSE LET S == ScriptsUpTo(n - 1) IN
         S \cup { s \o c : s \in S, c \in Commands }

\* pets.json when the program is started: absent, two valid records, or no
\* JSON.
MenuFiles ==
    { NoFile,
      JsonArray(<< Obj(AllKeys, <<66>>, <<68, 79, 71>>, 100), ObjCat >>),
      Garbage }

Scripts == ScriptsUpTo(MaxCommands)

Main ==
    /\ pc = "idle"
    /\ \E script \in Scripts, content \in MenuFiles : main(script, content)

LoadDefault == load_default_file

RunPass == run

NextMenu == Main \/ LoadDefault \/ RunPass

SpecMenu == Init /\ [][NextMenu]_vars /\ WF_vars(NextMenu)

-----------------------------------------------------------------------------
\* SpecPrompt: add_pet_interactive called on its own with three typed lines.

\* "", " ", "B", " B "
PromptNames == { <<>>, <<32>>, <<66>>, <<32, 66, 32>> }
\* " cat ", "dragon"
PromptSpecies ==
    { <<32, 99, 97, 116, 32>>, <<100, 114, 97, 103, 111, 110>> }
\* "3", " 7 ", "1_0", "101", "-1", "", "x", "3.5", "1__0", "- 1"
PromptAges ==
    { <<51>>, <<32, 55, 32>>, <<49, 95, 48>>, <<49, 48, 49>>, <<45, 49>>,
      <<>>, <<120>>, <<51, 46, 53>>, <<49, 95, 95, 48>>, <<45, 32, 49>> }

AddInteractive ==
    /\ Len(pets) < MaxPromptPets
    /\ \E name \in PromptNames, species \in PromptSpecies, age \in PromptAges :
          call_add_pet_interactive(<< Line(name), Line(species), Line(age) >>)

NextPrompt == AddInteractive

SpecPrompt == Init /\ [][NextPrompt]_vars

-----------------------------------------------------------------------------
\* SpecCli: runs of the two command-line interfaces, one after the other, on
\* a file that holds any of FilePresets at the start.

\* The parsed arguments of a command.
CliArgs(command, name, species, age, file, input_file, by) ==
    [command |-> command, name |-> name, species |-> species, age |-> age,
     file |-> file, input_file |-> input_file, by |-> by]

\* add -n "B" or " ", -s CAT or OTHER, -a 0 or 101
AddArgs ==
    { CliArgs("add", name, species, age, file, "", "") :
        name \in { <<66>>, <<32>> }, species \in {"CAT", "OTHER"},
        age \in {0, 101}, file \in Paths }

\* list, stats, load; find -s CAT or DOG; sort --by name, age or age-desc
QueryArgs ==
    { CliArgs(command, <<>>, "", 0, file, "", "") :
        command \in {"list", "stats", "load"}, file \in Paths }
    \cup { CliArgs("find", <<>>, species, 0, file, "", "") :
             species \in {"CAT", "DOG"}, file \in Paths }
    \cup { CliArgs("sort", <<>>, "", 0, file, "", by) :
             by \in {"name", "age", "age-desc"}, file \in Paths }

\* save, for argparse with or without -i
ArgparseArgs ==
    AddArgs \cup QueryArgs
    \cup { CliArgs("save", <<>>, "", 0, file, input_file, "") :
             file \in Paths, input_file \in Paths \cup {""} }

ClickArgs ==
    AddArgs \cup QueryArgs
    \cup { CliArgs("save", <<>>, "", 0, file, "", "") : file \in Paths }
    \cup { CliArgs("demo", <<>>, "", 0, "", "", "") }

\* The file an add writes to holds fewer than MaxCliPets entries.
RoomFor(a) ==
    a.command = "add" =>
        (files[a.file].kind = "array" =>
            Len(files[a.file].items) < MaxCliPets)

Argparse == \E a \in ArgparseArgs : RoomFor(a) /\ argparse_main(a)

Click == \E a \in ClickArgs : RoomFor(a) /\ click_main(a)

NextCli == Argparse \/ Click

SpecCli == InitFile /\ [][NextCli]_vars

-----------------------------------------------------------------------------
\* Properties.

\* A name that is empty or consists of whitespace only.
Blank(s) == \A i \in 1..Len(s) : isspace(s[i])

ValidAge(age) == 0 <= age /\ age <= 100

\* The string names tag t once upper-cased, with spaces as underscores.
NamesTag(s, t) == replace_space(upper(s)) = SpeciesName(t)

\* The same after trimming the string first.
NamesTagTrimmed(s, t) == replace_space(upper(strip(s))) = SpeciesName(t)

Recognized(s) == \E t \in Species : NamesTag(s, t)

Count(list, x) == Cardinality({i \in 1..Len(list) : list[i] = x})

Contains(list, x) == \E i \in 1..Len(list) : list[i] = x

\* The positions of list whose record has species t, and the k-th of them.
PositionsOf(list, t) == {i \in 1..Len(list) : list[i].species = t}
KthPosition(list, t, k) ==
    CHOOSE i \in PositionsOf(list, t) :
        Cardinality({j \in PositionsOf(list, t) : j <= i}) = k

Sorting == op \in {"sort_by_name", "sort_by_age"}
SortKey(pet) == IF op = "sort_by_name" THEN pet.name ELSE pet.age

\* C1: in every state reachable by add_pet, the two sorts, save_to_file and
\* load_from_file, successful or failing, every record of the store has a
\* non-blank name, a species among the six tags and an age in 0..100.
C1_EveryRecordValid ==
    \A i \in 1..Len(pets) :
        /\ ~Blank(pets[i].name)
        /\ pets[i].species \in Species
        /\ ValidAge(pets[i].age)

\* A load that failed on its second record and left the first in the store.
C1_Witness ==
    /\ op = "load_from_file"
    /\ err = "ValueError"
    /\ Len(pets) > 0

\* C2: a successful add_pet leaves the store holding the earlier sequence
\* followed by one new record, and returns a record equal to the new last
\* element.
C2_AddAppends ==
    (op = "add_pet" /\ err = "none") =>
        /\ Len(ret) = 1
        /\ Len(pets) = Len(pre) + 1
        /\ \A i \in 1..Len(pre) : pets[i] = pre[i]
        /\ pets[Len(pets)] = ret[1]

C2_Witness ==
    /\ op = "add_pet"
    /\ err = "none"
    /\ Len(pre) = 2
    /\ pets[3] # pets[1]

\* C3: add_pet with a blank name, an age below 0 or an age above 100 raises
\* ValueError and leaves the store's sequence as it was.
C3_InvalidAddRejected ==
    (op = "add_pet" /\ (Blank(args.name) \/ args.age < 0 \/ args.age > 100)) =>
        /\ err = "ValueError"
        /\ pets = pre
        /\ ret = <<>>

C3_Witness ==
    /\ op = "add_pet"
    /\ Blank(args.name)
    /\ ValidAge(args.age)
    /\ err = "ValueError"
    /\ Len(pets) = 2

\* C4: Pet(name, species, age) succeeds exactly when the name is non-blank
\* and 0 <= age <= 100; the record then holds the raw name, the species and
\* the age it was given.
C4_ConstructionValidated ==
    (op = "Pet") =>
        /\ (err = "none") <=> (~Blank(args.name) /\ ValidAge(args.age))
        /\ err \in {"none", "ValueError"}
        /\ (err = "none") =>
              ret = << [name |-> args.name, species |-> args.species,
                        age |-> args.age] >>

\* Pet(" B ", ..., 100): the upper bound, and a name kept with its spaces.
C4_Witness ==
    /\ op = "Pet"
    /\ err = "none"
    /\ args.name = <<32, 66, 32>>
    /\ args.age = 100
    /\ ret[1].name = <<32, 66, 32>>

\* C5: resolving the species in add_pet never raises and yields one of the
\* six tags, OTHER whenever the string names no tag: add_pet fails only by
\* the ValueError of the record's validation.
C5_SpeciesParseTotal ==
    (op = "add_pet") =>
        /\ err \in {"none", "ValueError"}
        /\ (err = "ValueError") => (Blank(args.name) \/ ~ValidAge(args.age))
        /\ (err = "none") =>
              /\ ret[1].species \in Species
              /\ ~Recognized(args.species_str) => ret[1].species = "OTHER"

\* add_pet("B", "", 0)
C5_Witness ==
    /\ op = "add_pet"
    /\ args.species_str = <<>>
    /\ err = "none"
    /\ ret[1].species = "OTHER"

C7_FindExact ==
    \A t \in Species :
        (op = "find_by_species" /\ NamesTag(args.species_str, t)) =>
            /\ Len(ret) = Cardinality(PositionsOf(pets, t))
            /\ \A k \in 1..Len(ret) : ret[k] = pets[KthPosition(pets, t, k)]

\* Two matches around a record of another species.
C7_Witness ==
    /\ op = "find_by_species"
    /\ Len(pets) = 3
    /\ Len(ret) = 2
    /\ ret[1] # ret[2]
    /\ pets[2].species # ret[1].species

\* C8 as stated: for every species string s, recognized or not, a
\* find_by_species(s) that follows a successful add_pet(n, s, a) returns a
\* list containing the record just added.
C8_Original ==
    [][ ( /\ op = "add_pet" /\ err = "none"
          /\ op' = "find_by_species"
          /\ args'.species_str = args.species_str )
        => Contains(ret', ret[1]) ]_vars

\* C8 as amended: for every species string s that names a tag after
\* upper-casing and mapping spaces to underscores, a find_by_species(s) that
\* follows a successful add_pet(n, s, a) returns a list containing the
\* record just added; for a string that names no tag the record is stored as
\* OTHER and the search returns the empty list.
C8_Amended ==
    [][ ( /\ op = "add_pet" /\ err = "none"
          /\ op' = "find_by_species"
          /\ args'.species_str = args.species_str )
        => IF Recognized(args.species_str)
           THEN Contains(ret', ret[1])
           ELSE ret[1].species = "OTHER" /\ ret' = <<>> ]_vars

\* A search that returns the last record of the store.
C8_Witness ==
    /\ op = "find_by_species"
    /\ Recognized(args.species_str)
    /\ Len(pets) > 1
    /\ Contains(ret, pets[Len(pets)])

\* C9: both sorts are stable, sort_by_age(reverse=True) included: the
\* records of each sort key appear after the sort in the order they had
\* before it.
C9_SortStable ==
    Sorting =>
        \A i \in 1..Len(pre) :
            SelectSeq(pets, LAMBDA pet : SortKey(pet) = SortKey(pre[i]))
                = SelectSeq(pre, LAMBDA pet : SortKey(pet) = SortKey(pre[i]))

\* A descending sort that moved a record and kept two different records of
\* equal age in their order, so that the result is not the reversed
\* ascending one.
C9_Witness ==
    /\ op = "sort_by_age"
    /\ args.reverse
    /\ pets # pre
    /\ \E i, j \in 1..Len(pets) :
          /\ i < j
          /\ pets[i].age = pets[j].age
          /\ pets[i] # pets[j]
    /\ pets # Reverse(stable_sort(pre, "age"))

\* C10: after a sort the store holds a permutation of the earlier sequence;
\* names are non-decreasing after sort_by_name, ages non-decreasing after
\* sort_by_age() and non-increasing after sort_by_age(reverse=True).
C10_SortedPermutation ==
    Sorting =>
        /\ Len(pets) = Len(pre)
        /\ \A i \in 1..Len(pre) : Count(pets, pre[i]) = Count(pre, pre[i])
        /\ \A i, j \in 1..Len(pets) :
              i < j =>
                 IF op = "sort_by_name" THEN ~str_lt(pets[j].name, pets[i].name)
                 ELSE IF args.reverse THEN pets[i].age >= pets[j].age
                 ELSE pets[i].age <= pets[j].age

\* sort_by_name that had to move records: " a" sorts before "B".
C10_Witness ==
    /\ op = "sort_by_name"
    /\ Len(pets) = 3
    /\ pets # pre
    /\ pets[1].name # pets[3].name

\* The species load_from_file gives the record of a JSON object: the member
\* whose name the species value is, OTHER for any other value or no value.
FileSpecies(obj) ==
    IF "species" \in obj.keys /\ \E t \in Species : SpeciesName(t) = obj.species
    THEN CHOOSE t \in Species : SpeciesName(t) = obj.species
    ELSE "OTHER"

AgeAt(list) == [i \in 1..Len(list) |-> list[i].age]

RECURSIVE SumSeq(_)
SumSeq(q) == IF q = <<>> THEN 0 ELSE q[1] + SumSeq(Tail(q))

RECURSIVE SumOver(_, _)
SumOver(f, S) ==
    IF S = {} THEN 0
    ELSE LET x == CHOOSE y \in S : TRUE IN f[x] + SumOver(f, S \ {x})

\* C11: save_to_file(p) followed by load_from_file(p) into a new store
\* succeeds and gives the new store a sequence equal to the original, record
\* by record and in the same order.
C11_RoundTrip ==
    (op = "save_and_load") =>
        /\ err = "none"
        /\ ret = pets

\* A store with two equal CAT records, round-tripped.
C11_Witness ==
    /\ op = "save_and_load"
    /\ Len(pets) = 2
    /\ pets[1] = pets[2]
    /\ pets[1].species = "CAT"
    /\ ret = pets

\* C12: after save_to_file(p) the file p holds an array with one entry per
\* record of the store, in order, each with the keys name, species and age,
\* the species being the member name and not the label, whatever p held
\* before; an empty store writes an empty array.
C12_SaveWritesStore ==
    (op = "save_to_file") =>
        LET c == files[args.filename] IN
        /\ err = "none"
        /\ c.kind = "array"
        /\ Len(c.items) = Len(pets)
        /\ \A i \in 1..Len(pets) :
              /\ c.items[i].keys = {"name", "species", "age"}
              /\ c.items[i].name = pets[i].name
              /\ c.items[i].species = SpeciesName(pets[i].species)
              /\ c.items[i].species # SpeciesValue(pets[i].species)
              /\ c.items[i].age = pets[i].age

\* A save over a file that held a longer array.
C12_Witness ==
    /\ op = "save_to_file"
    /\ filepre[args.filename].kind = "array"
    /\ Len(filepre[args.filename].items) > Len(pets)
    /\ Len(pets) > 0
    /\ files # filepre

\* C13: a successful load_from_file replaces the store's sequence by the
\* records of the file, in file order; nothing of the earlier sequence
\* remains unless the file holds it.
C13_LoadReplaces ==
    (op = "load_from_file" /\ err = "none") =>
        LET items == files[args.filename].items IN
        /\ Len(pets) = Len(items)
        /\ \A i \in 1..Len(items) :
              pets[i] = [name |-> items[i].name, species |-> FileSpecies(items[i]),
                         age |-> items[i].age]

\* A load into a store whose records are not in the file.
C13_Witness ==
    /\ op = "load_from_file"
    /\ err = "none"
    /\ Len(pre) > 0
    /\ Len(pets) > 1
    /\ \A i \in 1..Len(pre) : ~Contains(pets, pre[i])

\* C14: loading a path that does not exist raises FileNotFoundError, loading
\* a file that is not JSON raises JSONDecodeError, and either leaves the
\* store's sequence as it was.
C14_FailedLoadKeepsStore ==
    (op = "load_from_file") =>
        /\ (files[args.filename].kind = "absent") =>
              (err = "FileNotFoundError" /\ pets = pre)
        /\ (files[args.filename].kind = "garbage") =>
              (err = "JSONDecodeError" /\ pets = pre)

C14_Witness ==
    /\ op = "load_from_file"
    /\ err = "JSONDecodeError"
    /\ Len(pets) > 0

\* C15: a load that fails on a well-formed JSON array with a bad record (no
\* name or age key, a blank name, an age outside 0..100) leaves the store's
\* sequence as it was before the call.
C15_LoadAllOrNothing ==
    (op = "load_from_file" /\ files[args.filename].kind = "array" /\ err # "none")
        => pets = pre

\* C16: a loaded record has species T (other than OTHER) exactly when the
\* file's species value is the exact name of T; any other value and an
\* absent species key give OTHER, and the load succeeds with every record
\* of the file present.
C16_LoadSpeciesExact ==
    (op = "load_from_file" /\ err = "none") =>
        LET items == files[args.filename].items IN
        /\ Len(pets) = Len(items)
        /\ \A i \in 1..Len(pets) :
              /\ pets[i].species \in Species
              /\ \A t \in Species \ {"OTHER"} :
                    (pets[i].species = t) <=>
                        ("species" \in items[i].keys
                            /\ items[i].species = SpeciesName(t))

\* The file with "DOG", lower-case "cat" and a record without species.
C16_Witness ==
    /\ op = "load_from_file"
    /\ err = "none"
    /\ Len(pets) = 3
    /\ pets[1].species = "DOG"
    /\ files[args.filename].items[2].species = <<99, 97, 116>>
    /\ pets[2].species = "OTHER"
    /\ "species" \notin files[args.filename].items[3].keys
    /\ pets[3].species = "OTHER"

\* C17: get_statistics on an empty store returns a dict with the key total
\* only, total being 0; average_age and by_species are absent.
C17_EmptyStatistics ==
    (op = "get_statistics" /\ pets = <<>>) =>
        /\ stats.keys = {"total"}
        /\ stats.total = 0

C17_Witness ==
    /\ op = "get_statistics"
    /\ pets = <<>>
    /\ "average_age" \notin stats.keys

\* C18: get_statistics on a non-empty store returns total, the number of
\* records, and by_species, whose keys are the tags held by at least one
\* record, each with the number of records holding it: the counts are
\* positive and sum to total.
C18_StatisticsBySpecies ==
    (op = "get_statistics" /\ pets # <<>>) =>
        /\ {"total", "by_species"} \subseteq stats.keys
        /\ stats.total = Len(pets)
        /\ DOMAIN stats.by_species = {pets[i].species : i \in 1..Len(pets)}
        /\ \A t \in DOMAIN stats.by_species :
              /\ stats.by_species[t] = Cardinality(PositionsOf(pets, t))
              /\ stats.by_species[t] > 0
        /\ SumOver(stats.by_species, DOMAIN stats.by_species) = stats.total

C18_Witness ==
    /\ op = "get_statistics"
    /\ Len(pets) = 3
    /\ DOMAIN stats.by_species = {"CAT", "OTHER"}
    /\ stats.by_species["CAT"] = 2

\* C19: get_statistics on a non-empty store returns average_age, the sum of
\* the ages divided by the number of records; for the ages 3, 5, 2, 1 it is
\* 11/4 = 2.75.
C19_AverageAge ==
    (op = "get_statistics" /\ pets # <<>>) =>
        /\ "average_age" \in stats.keys
        /\ stats.average_age.den > 0
        /\ stats.average_age.num * stats.total
              = SumSeq(AgeAt(pets)) * stats.average_age.den
        /\ (AgeAt(pets) = <<3, 5, 2, 1>>) =>
              stats.average_age = [num |-> 11, den |-> 4]

C19_Witness ==
    /\ op = "get_statistics"
    /\ AgeAt(pets) = <<3, 5, 2, 1>>
    /\ stats.total = 4
    /\ stats.average_age = [num |-> 11, den |-> 4]

\* C20: show_all, find_by_species, get_statistics and save_to_file leave
\* the store's sequence unchanged.
C20_QueriesKeepStore ==
    (op \in {"show_all", "find_by_species", "get_statistics", "save_to_file"})
        => pets = pre

\* A search that returned some of the records of the store, not all.
C20_Witness ==
    /\ op = "find_by_species"
    /\ ret # <<>>
    /\ Len(ret) < Len(pets)

\* s begins with p / p occurs somewhere in s.
StartsWith(s, p) == Len(p) <= Len(s) /\ SubSeq(s, 1, Len(p)) = p
HasSub(s, p) == \E k \in 0..(Len(s) - Len(p)) : SubSeq(s, k + 1, k + Len(p)) = p

\* "Список всех питомцев:"
HeaderWords ==
    <<1057, 1087, 1080, 1089, 1086, 1082, 32, 1074, 1089, 1077, 1093, 32,
      1087, 1080, 1090, 1086, 1084, 1094, 1077, 1074, 58>>

\* A line that begins with a digit, as the numbered record lines do.
Numbered(line) == line # <<>> /\ line[1] \in 48..57

\* The line is numbered i and shows the name, the display label of the
\* species and the age of the record.
ShowsRecord(line, i, pet) ==
    /\ StartsWith(line, int_str(i) \o <<46, 32>>)
    /\ HasSub(line, pet.name)
    /\ HasSub(line, SpeciesValue(pet.species))
    /\ HasSub(line, int_str(pet.age))

\* C21: show_all returns the sentinel text "Список питомцев пуст." for an
\* empty store; for a store of n >= 1 records the lines of its text hold a
\* header, after it n consecutive lines of which the i-th is numbered i and
\* shows name, species label and age of the i-th record, no other numbered
\* line, and a last line that gives n.
C21_ShowAllRendering ==
    op = "show_all" =>
        IF pets = <<>> THEN text = empty_text
        ELSE LET lines == split(text, 10)
                 n     == Len(pets)
             IN  /\ HasSub(lines[Len(lines)], int_str(n))
                 /\ \E h \in 1..Len(lines) :
                       /\ HasSub(lines[h], HeaderWords)
                       /\ \E k \in h..(Len(lines) - n - 1) :
                             /\ \A i \in 1..n :
                                   ShowsRecord(lines[k + i], i, pets[i])
                             /\ {j \in 1..Len(lines) : Numbered(lines[j])}
                                    = (k + 1)..(k + n)

C21_Witness ==
    /\ op = "show_all"
    /\ Len(pets) >= 2
    /\ pets[1].species # pets[2].species
    /\ pets[1].age = 100

\* C22: for a store of n >= 1 records, the text of show_all split on "\n"
\* has the header as its first piece (line 0), forty dashes as line 1, the
\* record lines "i. name - label, age лет" as lines 2..n+1, forty dashes as
\* line n+2 and "Всего: n питомцев" as line n+3.
C22_ShowAllLines ==
    (op = "show_all" /\ pets # <<>>) =>
        LET lines == split(text, 10)
            n     == Len(pets)
        IN  /\ Len(lines) >= n + 4
            /\ HasSub(lines[1], HeaderWords)
            /\ lines[2] = [i \in 1..40 |-> 45]
            /\ \A i \in 1..n : lines[i + 2] = pet_line(i, pets[i])
            /\ lines[n + 3] = [i \in 1..40 |-> 45]
            /\ lines[n + 4] = total_line(n)

\* The tag add_pet gives a species string: the tag it names, else OTHER.
ParsedSpecies(s) ==
    IF Recognized(s) THEN CHOOSE t \in Species : NamesTag(s, t) ELSE "OTHER"

\* The record add_pet builds from the arguments of the last call.
ArgsRecord ==
    [name |-> args.name, species |-> ParsedSpecies(args.species_str),
     age |-> args.age]

\* C23: add_pet whose name, species and age equal those of a record the
\* store already holds succeeds: the store is the earlier sequence followed
\* by one more element equal to that record, which it then holds once more
\* than before.
C23_DuplicatesAllowed ==
    (op = "add_pet" /\ \E i \in 1..Len(pre) : pre[i] = ArgsRecord) =>
        /\ err = "none"
        /\ pets = Append(pre, ArgsRecord)
        /\ Count(pets, ArgsRecord) = Count(pre, ArgsRecord) + 1

C23_Witness ==
    /\ op = "add_pet"
    /\ err = "none"
    /\ Len(pets) = 3
    /\ pets[1] = pets[3]
    /\ pets[2] # pets[1]

\* C24: Species.from_string(s) returns tag t when s names t in any letter
\* case, and raises ValueError for every other string, "" included.
C24_FromString ==
    op = "Species.from_string" =>
        IF \E t \in Species : upper(args.s) = SpeciesName(t)
        THEN /\ err = "none"
             /\ \E t \in Species : upper(args.s) = SpeciesName(t) /\ ret = <<t>>
        ELSE err = "ValueError"

\* The last pass of run read the choice "8" at the menu prompt.
ChoseExit ==
    /\ op = "run"
    /\ args.inputs # <<>>
    /\ Head(args.inputs).kind = "line"
    /\ strip(Head(args.inputs).s) = <<56>>

\* C25: a pass of run in which the user enters 8 at the menu prompt ends the
\* loop, after the goodbye message when no exception ended it; a pass in
\* which KeyboardInterrupt is raised at a prompt ends the loop; and once the
\* loop has ended nothing more is read or printed.
C25_RunReturns ==
    /\ [](ChoseExit =>
             /\ pc = "done"
             /\ (err = "none" => out[Len(out)] = "goodbye"))
    /\ []((op = "run" /\ err = "KeyboardInterrupt") => pc = "done")
    /\ [][pc = "done" =>
              (inputs' = inputs /\ out' = out /\ menus' = menus)]_vars

\* C26: run returns on every script: the loop ends at some point, also when
\* the script runs out before 8 was chosen at the menu.
C26_RunTerminates == <>(pc = "done")

\* The save at exit happened: its message was printed.
SavedAtExit == \E i \in 1..Len(out) : out[i] = "saved"

\* The answer typed at the save prompt of the last pass.
ExitAnswer == args.inputs[2].s

\* C27 as stated: after choice 8 the loop ends; with an empty store no
\* answer is read and nothing is saved; with a non-empty store the default
\* file is saved exactly when the answer is "y".
C27_Original ==
    (ChoseExit /\ err = "none") =>
        /\ pc = "done"
        /\ IF pre = <<>>
           THEN /\ inputs = Tail(args.inputs)
                /\ ~SavedAtExit
                /\ files = filepre
           ELSE /\ SavedAtExit <=> ExitAnswer = <<121>>
                /\ IF SavedAtExit
                   THEN files = [filepre EXCEPT ![default_file] =
                                    JsonArray([i \in 1..Len(pre) |->
                                                  pet_dict(pre[i])])]
                   ELSE files = filepre

\* C27 amended: the same, with the save happening exactly when the answer
\* is "y" or "Y" (the answer is lower-cased, not trimmed).
C27_Amended ==
    (ChoseExit /\ err = "none") =>
        /\ pc = "done"
        /\ IF pre = <<>>
           THEN /\ inputs = Tail(args.inputs)
                /\ ~SavedAtExit
                /\ files = filepre
           ELSE /\ SavedAtExit <=> ExitAnswer \in { <<121>>, <<89>> }
                /\ IF SavedAtExit
                   THEN files = [filepre EXCEPT ![default_file] =
                                    JsonArray([i \in 1..Len(pre) |->
                                                  pet_dict(pre[i])])]
                   ELSE files = filepre

C27_Witness ==
    /\ ChoseExit
    /\ err = "none"
    /\ pre # <<>>
    /\ ExitAnswer = <<89>>
    /\ SavedAtExit
    /\ files # filepre

\* The name and the age typed in the last call of add_pet_interactive.
EnteredName == args.inputs[1].s
EnteredAge == args.inputs[3].s

\* The text is an integer numeral: optional sign, then digits, which single
\* underscores may group; whitespace around it is ignored.
IntegerText(s) ==
    LET t      == strip(s)
        body   == IF t # <<>> /\ t[1] \in {43, 45} THEN Tail(t) ELSE t
        groups == split(body, 95)
    IN  \A g \in 1..Len(groups) :
            /\ groups[g] # <<>>
            /\ \A i \in 1..Len(groups[g]) : groups[g][i] \in 48..57

\* C28: add_pet_interactive given a name, a species and an age returns
\* without an exception; it leaves the store as it was when the name is
\* blank, the age is no integer or the age is outside 0..100, and otherwise
\* appends exactly one record, with the trimmed name and that age.
C28_AddInteractive ==
    (op = "add_pet_interactive" /\ Len(args.inputs) = 3) =>
        /\ err = "none"
        /\ IF \/ Blank(EnteredName)
              \/ ~IntegerText(EnteredAge)
              \/ ~ValidAge(int_parse(EnteredAge).value)
           THEN pets = pre
           ELSE /\ Len(pets) = Len(pre) + 1
                /\ SubSeq(pets, 1, Len(pre)) = pre
                /\ pets[Len(pets)].name = strip(EnteredName)
                /\ pets[Len(pets)].age = int_parse(EnteredAge).value

C28_Witness ==
    /\ op = "add_pet_interactive"
    /\ ~Blank(EnteredName)
    /\ IntegerText(EnteredAge)
    /\ ~ValidAge(int_parse(EnteredAge).value)
    /\ pre # <<>>
    /\ pets = pre

\* The last step was the add command of one of the command-line interfaces.
CliAdd == op \in {"argparse", "click"} /\ args.command = "add"

\* The records a file content holds, as load_from_file reads them.
RecordsOf(content) == load_result(<<>>, content)

\* C29: when the target file holds a loadable sequence S, a successful add
\* of either interface leaves the file holding S followed by the new record.
C29_AddKeepsFileRecords ==
    (/\ CliAdd
     /\ ret # <<>>
     /\ filepre[args.file].kind = "array"
     /\ RecordsOf(filepre[args.file]).raised = "none") =>
        RecordsOf(files[args.file]) =
            [raised |-> "none",
             pets |-> Append(RecordsOf(filepre[args.file]).pets, ret[1])]

\* C30: when the target file exists and cannot be loaded, the add and sort
\* commands of either interface leave the file as it was.
C30_FailedLoadNoWrite ==
    (/\ op \in {"argparse", "click"}
     /\ args.command \in {"add", "sort"}
     /\ filepre[args.file].kind # "absent"
     /\ RecordsOf(filepre[args.file]).raised # "none") =>
        files = filepre

====
